---- MODULE Spec2Model ----
(***************************************************************************)
(* Limit-order-book simulator (lob.py, market.py, run_simulation.py).      *)
(*                                                                         *)
(* Prices are counted in ticks (tick = 1), so int((nbo - nbb) / tick) is   *)
(* exact.  Python objects live in `heap`: a reference is an index into it, *)
(* which lets deepcopy, aliasing and in-place mutation be told apart.      *)
(* Python lists are 0-based; the sequences here are 1-based, so the code's *)
(* book_vol[i] is written vol[i + 1].                                      *)
(***************************************************************************)
EXTENDS Integers, Sequences, FiniteSets, TLC

VARIABLES
    config,        \* Config object (configuration.py)
    heap,          \* every OrderBookSnapshot object allocated so far
    orderbook,     \* the OrderBookHistory object
    snapshot,      \* run_orderbook_simulation local: reference, 0 = unbound
    new_order,     \* run_orderbook_simulation local
    new_snapshot,  \* run_orderbook_simulation local: reference, 0 = unbound
    exec_count,    \* number of Trade objects constructed (source of exec_id)
    query,         \* get_snapshot call, when it is the client's latest call
    pc             \* position of the driver

vars == <<config, heap, orderbook, snapshot, new_order, new_snapshot,
          exec_count, query, pc>>

---------------------------------------------------------------------------
(* Bounds of the model *)

MaxDepth == 2
MaxStartSpread == 2
MaxQty == 1
MaxGap == 1
MaxSnapshots == 3
EndTime == 2
MaxHist == 4
MaxTime == 3

(* Values of configuration.py; prices are in ticks of 0.01, so that the     *)
(* tick is 1 and start_bid 100.00 is 10000.                                *)

start_time_default == 0
start_bid_default == 10000
tick_size == 1
market_order_rate == 2
limit_order_rate == 5
cancel_order_rate == 1

---------------------------------------------------------------------------
(* Enumerations *)

MARKET_ORDER == "MARKET_ORDER"
LIMIT_ORDER == "LIMIT_ORDER"
CANCEL_ORDER == "CANCEL_ORDER"
MIDPOINT_ORDER == "MIDPOINT_ORDER"
OrderType == {MARKET_ORDER, LIMIT_ORDER, CANCEL_ORDER, MIDPOINT_ORDER}

BUY == "BUY"
SELL == "SELL"
Side == {BUY, SELL}

---------------------------------------------------------------------------
(* Helpers for Python built-ins *)

Min(a, b) == IF a <= b THEN a ELSE b

Max(a, b) == IF a >= b THEN a ELSE b

\* int(a / b) for a positive divisor: truncation toward zero
IntDiv(a, b) == IF a >= 0 THEN a \div b ELSE -((-a) \div b)

\* [0] * n  (the empty list when n <= 0)
Zeros(n) == [i \in 1..Max(n, 0) |-> 0]

\* list.pop(0)
Pop0(l) == Tail(l)

RECURSIVE SumSeq(_)
SumSeq(l) == IF l = <<>> THEN 0 ELSE Head(l) + SumSeq(Tail(l))

\* list.insert(index, x) with a 0-based index in 0..len
InsertAt(l, index, x) == SubSeq(l, 1, index) \o <<x>> \o SubSeq(l, index + 1, Len(l))

---------------------------------------------------------------------------
(* Trade, Order, OrderBookSnapshot *)

Trade(timestamp, price, qty, order_type, exec_id) ==
    [timestamp |-> timestamp, price |-> price, qty |-> qty,
     order_type |-> order_type, exec_id |-> exec_id]

Order(timestamp, order_type, side, level, qty) ==
    [timestamp |-> timestamp, order_type |-> order_type, side |-> side,
     level |-> level, qty |-> qty, partial_fill |-> TRUE]

NoOrder == [timestamp |-> 0, order_type |-> "NONE", side |-> "NONE",
            level |-> 0, qty |-> 0, partial_fill |-> TRUE]

OrderBookSnapshot(time, tick, nbb, nbo, bid_vol, ask_vol, book_depth) ==
    [timestamp |-> time, tick |-> tick, nbb |-> nbb, nbo |-> nbo,
     spread |-> IntDiv(nbo - nbb, tick),
     bid_vol |-> bid_vol, ask_vol |-> ask_vol,
     book_depth |-> book_depth, trades |-> <<>>]

\* OrderBookSnapshot.__lt__ against another snapshot
snapshot_lt(s, other) == s.timestamp < other.timestamp

\* OrderBookSnapshot.__lt__ against a number
snapshot_lt_num(s, other) == s.timestamp < other

\* OrderBookSnapshot.update_trade; `n` trades were constructed before it
update_trade(s, price, qty, order_type, n) ==
    [s EXCEPT !.trades = Append(@, Trade(s.timestamp, price, qty, order_type, n + 1))]

---------------------------------------------------------------------------
(* OrderBookSnapshot: the order-application methods.  Each takes the       *)
(* snapshot object it is called on and returns that object after the call. *)
(* The parameter new_order of the code is named `order` here.              *)

\* The call raises IndexError (a list index or pop out of range).
process_raises(s, order) ==
    LET sweep_vol == IF order.side = BUY THEN s.ask_vol ELSE s.bid_vol
        own_vol == IF order.side = BUY THEN s.bid_vol ELSE s.ask_vol
    IN CASE order.order_type = CANCEL_ORDER ->
              order.level >= Len(own_vol)
         [] order.order_type = MARKET_ORDER ->
              order.level >= Len(sweep_vol)
         [] order.order_type = LIMIT_ORDER ->
              /\ order.level >= s.spread
              /\ order.level - s.spread >= Len(own_vol)
         [] OTHER -> FALSE

\* Mutant of process_cancel_order: the quantity is subtracted without min().
process_cancel_order_unclamped(s, order) ==
    LET buy == order.side = BUY
        tick_adj == IF buy THEN -s.tick ELSE s.tick
        book_vol == IF buy THEN s.bid_vol ELSE s.ask_vol
        nbbo == IF buy THEN s.nbb ELSE s.nbo
        reduced == [book_vol EXCEPT ![order.level + 1] = @ - order.qty]
        adjust == order.level = 0 /\ reduced[1] = 0
        vol == IF adjust THEN Pop0(reduced) ELSE reduced
        price == IF adjust THEN nbbo + tick_adj ELSE nbbo
    IN IF buy THEN [s EXCEPT !.bid_vol = vol, !.nbb = price]
              ELSE [s EXCEPT !.ask_vol = vol, !.nbo = price]

\* Mutant of process_cancel_order: the best level is removed and the price
\* moved whenever the cancelled level is emptied, not only at level 0.
process_cancel_order_any_level(s, order) ==
    LET buy == order.side = BUY
        tick_adj == IF buy THEN -s.tick ELSE s.tick
        book_vol == IF buy THEN s.bid_vol ELSE s.ask_vol
        nbbo == IF buy THEN s.nbb ELSE s.nbo
        reduced == [book_vol EXCEPT ![order.level + 1] = @ - Min(order.qty, @)]
        adjust == reduced[order.level + 1] = 0
        vol == IF adjust THEN Pop0(reduced) ELSE reduced
        price == IF adjust THEN nbbo + tick_adj ELSE nbbo
    IN IF buy THEN [s EXCEPT !.bid_vol = vol, !.nbb = price]
              ELSE [s EXCEPT !.ask_vol = vol, !.nbo = price]

process_cancel_order(s, order) ==
    LET buy == order.side = BUY
        tick_adj == IF buy THEN -s.tick ELSE s.tick
        book_vol == IF buy THEN s.bid_vol ELSE s.ask_vol
        nbbo == IF buy THEN s.nbb ELSE s.nbo
        reduced == [book_vol EXCEPT ![order.level + 1] = @ - Min(order.qty, @)]
        adjust == order.level = 0 /\ reduced[1] = 0
        vol == IF adjust THEN Pop0(reduced) ELSE reduced
        price == IF adjust THEN nbbo + tick_adj ELSE nbbo
    IN IF buy THEN [s EXCEPT !.bid_vol = vol, !.nbb = price]
              ELSE [s EXCEPT !.ask_vol = vol, !.nbo = price]

\* The while loop of process_sweep_order, from the iteration at `lvl`.
RECURSIVE sweep_loop(_, _, _, _, _, _, _)
sweep_loop(s, book_vol, lvl, level, nnbbo, tick_adj, n) ==
    IF lvl <= level
    THEN sweep_loop(update_trade(s, nnbbo + lvl * tick_adj, book_vol[1], MARKET_ORDER, n),
                    Pop0(book_vol), lvl + 1, level, nnbbo, tick_adj, n + 1)
    ELSE [s |-> s, book_vol |-> book_vol, lvl |-> lvl]

\* The while loop of process_market_order (the quantity-driven execution).
RECURSIVE market_loop(_, _, _, _, _, _, _)
market_loop(s, book_vol, lvl, order_vol, nnbbo, tick_adj, n) ==
    IF order_vol > 0 /\ book_vol /= <<>>
    THEN LET trade_volume == Min(order_vol, book_vol[1])
             traded == update_trade(s, nnbbo + lvl * tick_adj, trade_volume, MARKET_ORDER, n)
             left == book_vol[1] - trade_volume
         IN IF left = 0
            THEN market_loop(traded, Pop0(book_vol), lvl + 1,
                             order_vol - trade_volume, nnbbo, tick_adj, n + 1)
            ELSE market_loop(traded, [book_vol EXCEPT ![1] = left], lvl,
                             order_vol - trade_volume, nnbbo, tick_adj, n + 1)
    ELSE [s |-> s, book_vol |-> book_vol, lvl |-> lvl]

\* The assignments that end process_sweep_order and process_market_order.
sweep_store(r, buy, nnbbo, tick_adj) ==
    IF buy THEN [r.s EXCEPT !.ask_vol = r.book_vol,
                            !.nbo = nnbbo + r.lvl * tick_adj,
                            !.nbb = nnbbo + (r.lvl - 1) * tick_adj]
           ELSE [r.s EXCEPT !.bid_vol = r.book_vol,
                            !.nbb = nnbbo + r.lvl * tick_adj,
                            !.nbo = nnbbo + (r.lvl - 1) * tick_adj]

\* Not called by update (its call is commented out, lob.py line 206).
process_market_order(s, order, n) ==
    LET buy == order.side = BUY
        tick_adj == IF buy THEN s.tick ELSE -s.tick
        nnbbo == IF buy THEN s.nbo ELSE s.nbb
        book_vol == IF buy THEN s.ask_vol ELSE s.bid_vol
    IN sweep_store(market_loop(s, book_vol, 0, order.qty, nnbbo, tick_adj, n),
                   buy, nnbbo, tick_adj)

\* Mutant of process_sweep_order: the quantity-driven execution is used instead
\* (the call that lob.py line 206 comments out).
process_sweep_order_by_quantity(s, order, n) == process_market_order(s, order, n)

\* Mutant of process_sweep_order: every trade is priced at the best price, the
\* level index is left out of the price.
process_sweep_order_flat_price(s, order, n) ==
    LET buy == order.side = BUY
        tick_adj == IF buy THEN s.tick ELSE -s.tick
        nnbbo == IF buy THEN s.nbo ELSE s.nbb
        book_vol == IF buy THEN s.ask_vol ELSE s.bid_vol
    IN sweep_store(sweep_loop(s, book_vol, 0, order.level, nnbbo, 0, n),
                   buy, nnbbo, tick_adj)

process_sweep_order(s, order, n) ==
    LET buy == order.side = BUY
        tick_adj == IF buy THEN s.tick ELSE -s.tick
        nnbbo == IF buy THEN s.nbo ELSE s.nbb
        book_vol == IF buy THEN s.ask_vol ELSE s.bid_vol
    IN sweep_store(sweep_loop(s, book_vol, 0, order.level, nnbbo, tick_adj, n),
                   buy, nnbbo, tick_adj)

process_limit_order(s, order) ==
    LET buy == order.side = BUY
        tick_adj == IF buy THEN s.tick ELSE -s.tick
        book_vol == IF buy THEN s.bid_vol ELSE s.ask_vol
        nbbo == IF buy THEN s.nbb ELSE s.nbo
        order_vol == order.qty
        added == [book_vol EXCEPT ![order.level - s.spread + 1] = @ + order_vol]
        drop == order.level = s.spread /\ added[1] = 0
        improved == [Zeros(s.spread - order.level) \o book_vol EXCEPT ![1] = order_vol]
        vol == IF order.level >= s.spread
               THEN (IF drop THEN Pop0(added) ELSE added)
               ELSE improved
        price == IF order.level >= s.spread
                 THEN (IF drop THEN nbbo - tick_adj ELSE nbbo)
                 ELSE nbbo + (s.spread - order.level) * tick_adj
    IN IF buy THEN [s EXCEPT !.bid_vol = vol, !.nbb = price]
              ELSE [s EXCEPT !.ask_vol = vol, !.nbo = price]

\* Mutant of pad: the lists are not padded after the order is applied.
pad_none(l, book_depth) == l

\* lob.py lines 212-213: l += [0] * (book_depth - len(l))
pad(l, book_depth) == l \o Zeros(book_depth - Len(l))

\* Mutant of deepcopy: `new_snapshot = self`, no copy is made.
deepcopy_alias(h, self) == [heap |-> h, ref |-> self]

\* copy.deepcopy(self): a fresh object with equal contents.
\* Returns the heap after the allocation and the reference to the copy.
deepcopy(h, self) == [heap |-> Append(h, h[self]), ref |-> Len(h) + 1]

\* OrderBookSnapshot.update: `n` Trade objects exist before the call.
\* Returns the heap after the call and the reference that is returned.
update(h, self, order, n) ==
    LET copy == deepcopy(h, self)
        ns == copy.ref
        stamped == [copy.heap[ns] EXCEPT !.timestamp = order.timestamp]
        processed ==
            CASE order.order_type = CANCEL_ORDER -> process_cancel_order(stamped, order)
              [] order.order_type = MARKET_ORDER -> process_sweep_order(stamped, order, n)
              [] order.order_type = LIMIT_ORDER -> process_limit_order(stamped, order)
              [] OTHER -> stamped
        padded == [processed EXCEPT !.bid_vol = pad(@, processed.book_depth),
                                    !.ask_vol = pad(@, processed.book_depth)]
    IN [heap |-> [copy.heap EXCEPT ![ns] = padded], ref |-> ns]

---------------------------------------------------------------------------
(* OrderBookHistory.  `snapshots` holds references into the heap.          *)

OrderBookHistory(start_time, tick, nbb, nbo, book_depth) ==
    [start_time |-> start_time, end_time |-> start_time, tick |-> tick,
     current_nbb |-> nbb, current_nbo |-> nbo, book_depth |-> book_depth,
     snapshots |-> <<>>]

\* A Python number as an operand of __lt__
Number(x) == [number |-> x]

\* OrderBookSnapshot.__lt__: the isinstance tests on `other`, which is a
\* snapshot object or a Number
lt(s, other) ==
    IF "timestamp" \in DOMAIN other
    THEN snapshot_lt(s, other)
    ELSE snapshot_lt_num(s, other.number)

\* bisect.bisect_left(a, x): the loop `while lo < hi`, 0-based lo and hi
RECURSIVE bisect_loop(_, _, _, _)
bisect_loop(a, x, lo, hi) ==
    IF lo < hi
    THEN LET mid == (lo + hi) \div 2
         IN IF lt(a[mid + 1], x)
            THEN bisect_loop(a, x, mid + 1, hi)
            ELSE bisect_loop(a, x, lo, mid)
    ELSE lo

bisect_left(a, x) == bisect_loop(a, x, 0, Len(a))

\* The snapshot objects a list of references points to
objects(h, refs) == [i \in DOMAIN refs |-> h[refs[i]]]

\* Mutant of add_snapshot: every snapshot is appended, whatever its timestamp.
add_snapshot_append(ob, h, ref) ==
    [ob EXCEPT !.end_time = h[ref].timestamp,
               !.snapshots = Append(@, ref),
               !.current_nbb = h[ref].nbb,
               !.current_nbo = h[ref].nbo]

add_snapshot(ob, h, ref) ==
    IF ob.end_time <= h[ref].timestamp
    THEN [ob EXCEPT !.end_time = h[ref].timestamp,
                    !.snapshots = Append(@, ref),
                    !.current_nbb = h[ref].nbb,
                    !.current_nbo = h[ref].nbo]
    ELSE [ob EXCEPT !.snapshots =
              InsertAt(@, bisect_left(objects(h, ob.snapshots), h[ref]), ref)]

\* Defined on a history that holds at least one snapshot
get_latest_snapshot(ob) == ob.snapshots[Len(ob.snapshots)]

get_snapshot(ob, h, timestamp) ==
    bisect_left(objects(h, ob.snapshots), Number(timestamp)) - 1

---------------------------------------------------------------------------
(* Config and Market.get_next_order *)

Config(start_time, max_depth, start_spread) ==
    [start_time |-> start_time, end_time |-> EndTime, tick_size |-> tick_size,
     start_bid |-> start_bid_default,
     start_ask |-> start_bid_default + start_spread * tick_size,
     max_depth |-> max_depth]

\* prob_limit[i - 1] = limit_order_rate / i, here times i
prob_limit(i) == limit_order_rate

\* prob_cancel[i] = cancel_order_rate * (depth - i - 1) / depth, here times depth
prob_cancel(depth, i) == cancel_order_rate * (depth - i - 1)

\* Mutant of order_choices: the limit levels run one past the last level,
\* range(1, depth + snapshot.spread + 1).
order_choices_one_more(s) ==
    LET depth == s.book_depth
    IN {c \in {[order_type |-> MARKET_ORDER, level |-> 0]} : market_order_rate > 0}
       \cup {[order_type |-> LIMIT_ORDER, level |-> i] :
                i \in {j \in 1..(depth + s.spread) : prob_limit(j) > 0}}
       \cup {[order_type |-> CANCEL_ORDER, level |-> i] :
                i \in {j \in 0..(depth - 1) : prob_cancel(depth, j) > 0}}

\* The (order type, level) pairs random.choice can draw: those of lists
\* ord_type and lvl whose probability is not zero.
order_choices(s) ==
    LET depth == s.book_depth
    IN {c \in {[order_type |-> MARKET_ORDER, level |-> 0]} : market_order_rate > 0}
       \cup {[order_type |-> LIMIT_ORDER, level |-> i] :
                i \in {j \in 1..(depth + s.spread - 1) : prob_limit(j) > 0}}
       \cup {[order_type |-> CANCEL_ORDER, level |-> i] :
                i \in {j \in 0..(depth - 1) : prob_cancel(depth, j) > 0}}

\* market.py line 97: int(-timestep_ms * log(uniform(1e-3, 1)) / total_rate).
\* The argument of int() is a positive real, counted here in halves of a time
\* unit; int() truncates it.
time_till_next_values == {IntDiv(halves, 2) : halves \in 1..(2 * MaxGap + 1)}

\* Every order get_next_order(s) can return, with quantities up to MaxQty and
\* inter-arrival gaps up to MaxGap.
get_next_order(s) ==
    {Order(s.timestamp + time_till_next, c.order_type, side, c.level, qty) :
        c \in order_choices(s), side \in Side, qty \in 0..MaxQty,
        time_till_next \in time_till_next_values}

---------------------------------------------------------------------------
(* run_orderbook_simulation *)

NoQuery == [called |-> FALSE, timestamp |-> 0, result |-> 0]

\* OrderBookHistory.initiate_orderbook: the first snapshot object
first_snapshot(cfg) ==
    OrderBookSnapshot(cfg.start_time, cfg.tick_size, cfg.start_bid, cfg.start_ask,
                      [i \in 1..cfg.max_depth |-> 1], [i \in 1..cfg.max_depth |-> 1],
                      cfg.max_depth)

\* OrderBookHistory.from_config as it leaves the heap and the history
Init ==
    /\ config \in {Config(start_time_default, d, s) :
                     d \in 1..MaxDepth, s \in 1..MaxStartSpread}
    /\ heap = <<first_snapshot(config)>>
    /\ orderbook = add_snapshot(
            OrderBookHistory(config.start_time, config.tick_size, config.start_bid,
                             config.start_ask, config.max_depth),
            heap, 1)
    /\ snapshot = 0
    /\ new_order = NoOrder
    /\ new_snapshot = 0
    /\ exec_count = 0
    /\ query = NoQuery
    /\ pc = "loop"

\* lob.py lines 22-25 for one order: snapshot.update(order), then add_snapshot.
\* An IndexError raised by update leaves the driver.
Step(order) ==
    LET latest == get_latest_snapshot(orderbook)
        r == update(heap, latest, order, exec_count)
    IN /\ snapshot' = latest
       /\ new_order' = order
       /\ IF process_raises(heap[latest], order)
          THEN /\ pc' = "raised"
               /\ UNCHANGED <<heap, orderbook, new_snapshot, exec_count>>
          ELSE /\ heap' = r.heap
               /\ new_snapshot' = r.ref
               /\ exec_count' = exec_count
                     + Len(r.heap[r.ref].trades) - Len(heap[latest].trades)
               /\ orderbook' = add_snapshot(orderbook, r.heap, r.ref)
               /\ pc' = pc
       /\ UNCHANGED <<config, query>>

\* One iteration of the while loop of run_orderbook_simulation
RunLoop ==
    /\ pc = "loop"
    /\ orderbook.end_time < config.end_time
    /\ Len(heap) < MaxSnapshots
    /\ \E order \in get_next_order(heap[get_latest_snapshot(orderbook)]) : Step(order)

\* The loop condition fails: export and return
Finish ==
    /\ pc = "loop"
    /\ ~(orderbook.end_time < config.end_time)
    /\ pc' = "done"
    /\ UNCHANGED <<config, heap, orderbook, snapshot, new_order, new_snapshot,
                   exec_count, query>>

Next == RunLoop \/ Finish

Spec == Init /\ [][Next]_vars

---------------------------------------------------------------------------
(* A client of the OrderBookSnapshot API: update is applied to the latest  *)
(* snapshot with any order whose level the book holds, not only with the   *)
(* orders Market.get_next_order draws.                                     *)

\* Every (order type, level) pair that update accepts on s without an
\* IndexError when both lists hold book_depth entries; it includes
\* order_choices(s).
client_choices(s) ==
    {[order_type |-> MARKET_ORDER, level |-> i] : i \in 0..(s.book_depth - 1)}
    \cup {[order_type |-> LIMIT_ORDER, level |-> i] :
             i \in 0..(s.book_depth + s.spread - 1)}
    \cup {[order_type |-> CANCEL_ORDER, level |-> i] : i \in 0..(s.book_depth - 1)}

client_orders(s) ==
    {Order(s.timestamp + 1, c.order_type, side, c.level, qty) :
        c \in client_choices(s), side \in Side, qty \in 0..MaxQty}

ClientUpdate ==
    /\ pc = "loop"
    /\ Len(heap) < MaxSnapshots
    /\ \E order \in client_orders(heap[get_latest_snapshot(orderbook)]) : Step(order)

NextApi == ClientUpdate

SpecApi == Init /\ [][NextApi]_vars

---------------------------------------------------------------------------
(* A client of the OrderBookHistory API: a history built by __init__ alone *)
(* (no first snapshot), then add_snapshot and get_snapshot calls with any  *)
(* timestamps.                                                             *)

InitHist ==
    /\ config \in {Config(t, 1, 1) : t \in 0..MaxTime}
    /\ heap = <<>>
    /\ orderbook = OrderBookHistory(config.start_time, config.tick_size,
                                    config.start_bid, config.start_ask,
                                    config.max_depth)
    /\ snapshot = 0
    /\ new_order = NoOrder
    /\ new_snapshot = 0
    /\ exec_count = 0
    /\ query = NoQuery
    /\ pc = "client"

\* add_snapshot(OrderBookSnapshot(time=t, ...)) for any timestamp t
ClientAddSnapshot ==
    /\ pc = "client"
    /\ Len(heap) < MaxHist
    /\ \E t \in 0..MaxTime :
          LET h == Append(heap, [first_snapshot(config) EXCEPT !.timestamp = t])
          IN /\ heap' = h
             /\ orderbook' = add_snapshot(orderbook, h, Len(h))
    /\ query' = NoQuery
    /\ UNCHANGED <<config, snapshot, new_order, new_snapshot, exec_count, pc>>

\* get_snapshot(t) for any timestamp t
ClientGetSnapshot ==
    /\ pc = "client"
    /\ \E t \in 0..MaxTime :
          query' = [called |-> TRUE, timestamp |-> t,
                    result |-> get_snapshot(orderbook, heap, t)]
    /\ UNCHANGED <<config, heap, orderbook, snapshot, new_order, new_snapshot,
                   exec_count, pc>>

NextHist == ClientAddSnapshot \/ ClientGetSnapshot

SpecHist == InitHist /\ [][NextHist]_vars

---------------------------------------------------------------------------
(* Properties.  After a step of the driver, heap[snapshot] is the snapshot *)
(* update was called on, new_order the order, heap[new_snapshot] the       *)
(* snapshot update returned.                                               *)

Updated == new_snapshot /= 0 /\ pc /= "raised"

Pre == heap[snapshot]

Post == heap[new_snapshot]

\* The list of the side the order rests on (limit, cancel)
OwnVol(s) == IF new_order.side = BUY THEN s.bid_vol ELSE s.ask_vol

\* The list of the side a market order consumes
SweptVol(s) == IF new_order.side = BUY THEN s.ask_vol ELSE s.bid_vol

\* (best_ask - best_bid) / tick of snapshot s
SpreadTicks(s) == IntDiv(s.nbo - s.nbb, s.tick)

\* C1: in a simulation run every snapshot has best_ask > best_bid.
C1_BestAskAboveBestBid ==
    \A r \in DOMAIN heap : heap[r].nbo > heap[r].nbb

\* C2: the spread field of every snapshot update returns equals
\* (best_ask - best_bid) / tick of that snapshot and is at least 1.
C2_SpreadRecomputed ==
    Updated => /\ Post.spread = SpreadTicks(Post)
               /\ Post.spread >= 1

\* C3: in every snapshot both volume lists hold at least book_depth entries
\* and no entry is negative.
C3_DepthAndVolumes ==
    \A r \in DOMAIN heap :
        /\ Len(heap[r].bid_vol) >= heap[r].book_depth
        /\ Len(heap[r].ask_vol) >= heap[r].book_depth
        /\ \A i \in DOMAIN heap[r].bid_vol : heap[r].bid_vol[i] >= 0
        /\ \A i \in DOMAIN heap[r].ask_vol : heap[r].ask_vol[i] >= 0

\* A market order emptied the best level of a full-length list, which update
\* padded back to book_depth entries.
C3_Witness ==
    /\ Updated
    /\ new_order.order_type = MARKET_ORDER
    /\ Len(SweptVol(Pre)) = Pre.book_depth
    /\ Len(SweptVol(Post)) = Post.book_depth
    /\ SweptVol(Post)[Post.book_depth] = 0
    /\ SweptVol(Pre)[Pre.book_depth] > 0

\* C4: update never changes a snapshot object that exists when it is called
\* (the one it is applied to, or any other stored in the history).
C4_UpdateMutatesNothing ==
    [][\A r \in DOMAIN heap : r \in DOMAIN heap' /\ heap'[r] = heap[r]]_vars

\* update returned a snapshot whose book differs from the book of the snapshot
\* it was applied to, and that one is still the one stored in the history.
C4_Witness ==
    /\ Updated
    /\ new_snapshot /= snapshot
    /\ orderbook.snapshots[Len(orderbook.snapshots) - 1] = snapshot
    /\ Post.bid_vol /= Pre.bid_vol
    /\ Post.nbb /= Pre.nbb
    /\ Pre = [first_snapshot(config) EXCEPT !.timestamp = Pre.timestamp]

\* C5: the trades of a snapshot update returns are those of that one order:
\* none after a limit or cancel order, and after a market order none that the
\* snapshot it was applied to already held.
C5_TradesOfThisOrderOnly ==
    Updated =>
        /\ new_order.order_type \in {LIMIT_ORDER, CANCEL_ORDER} => Post.trades = <<>>
        /\ new_order.order_type = MARKET_ORDER =>
              \A i \in DOMAIN Post.trades : \A j \in DOMAIN Pre.trades :
                  Post.trades[i].exec_id /= Pre.trades[j].exec_id

\* C6: a market order with level L removes from the side it consumes exactly
\* the volume of levels 0..L, and records L + 1 trades, the i-th for the whole
\* volume level i held, whatever the quantity of the order.
C6_SweepConservation ==
    (Updated /\ new_order.order_type = MARKET_ORDER
             /\ Len(SweptVol(Pre)) > new_order.level) =>
        LET L == new_order.level
            before == Len(Pre.trades)
        IN /\ SumSeq(SweptVol(Pre)) - SumSeq(SweptVol(Post))
                 = SumSeq(SubSeq(SweptVol(Pre), 1, L + 1))
           /\ Len(Post.trades) = before + L + 1
           /\ \A i \in 0..L : Post.trades[before + i + 1].qty = SweptVol(Pre)[i + 1]

\* A market order swept two levels or more, the best one holding more than the
\* quantity of the order.
C6_Witness ==
    /\ Updated
    /\ new_order.order_type = MARKET_ORDER
    /\ new_order.level >= 1
    /\ SweptVol(Pre)[1] > new_order.qty
    /\ SweptVol(Pre)[1] /= SweptVol(Pre)[2]

\* C7: a Buy limit order with level < spread lowers the spread field by
\* exactly spread - level and leaves the order quantity as bid_vol[0].
C7_BuyLimitImproves ==
    (Updated /\ new_order.order_type = LIMIT_ORDER /\ new_order.side = BUY
             /\ new_order.level < Pre.spread) =>
        /\ Post.spread = Pre.spread - (Pre.spread - new_order.level)
        /\ Post.bid_vol[1] = new_order.qty

\* C8 as stated: after a cancel, volumes[level] = max(0, original - qty) at
\* every level, level 0 included.
C8_CancelLeavesMaxZero ==
    (Updated /\ new_order.order_type = CANCEL_ORDER) =>
        OwnVol(Post)[new_order.level + 1]
            = Max(0, OwnVol(Pre)[new_order.level + 1] - new_order.qty)

\* C8 amended: after a cancel, volumes[level] = max(0, original - qty), unless
\* level = 0 and qty >= original: then the emptied best level is removed, every
\* level behind it moves up by one and the list is padded with zeros.
C8_CancelAmended ==
    (Updated /\ new_order.order_type = CANCEL_ORDER) =>
        LET original == OwnVol(Pre)[new_order.level + 1]
            left == Max(0, original - new_order.qty)
        IN IF new_order.level = 0 /\ left = 0
           THEN /\ Len(OwnVol(Post)) = Max(Len(OwnVol(Pre)) - 1, Pre.book_depth)
                /\ \A i \in DOMAIN OwnVol(Post) :
                      OwnVol(Post)[i] = IF i + 1 <= Len(OwnVol(Pre))
                                        THEN OwnVol(Pre)[i + 1] ELSE 0
           ELSE /\ Len(OwnVol(Post)) = Len(OwnVol(Pre))
                /\ \A i \in DOMAIN OwnVol(Post) :
                      OwnVol(Post)[i] = IF i = new_order.level + 1
                                        THEN left ELSE OwnVol(Pre)[i]

\* A cancel behind the best level asked for more than the level held.
C8_Witness ==
    /\ Updated
    /\ new_order.order_type = CANCEL_ORDER
    /\ new_order.level > 0
    /\ new_order.qty > OwnVol(Pre)[new_order.level + 1]
    /\ OwnVol(Post)[new_order.level + 1] = 0

\* The timestamps of the history's snapshots, in the order of the list
Timestamps == [i \in DOMAIN orderbook.snapshots |-> heap[orderbook.snapshots[i]].timestamp]

\* C9: after any add_snapshot calls the history is sorted by timestamp,
\* non-decreasing.
C9_HistorySorted ==
    \A i, j \in DOMAIN Timestamps : i < j => Timestamps[i] <= Timestamps[j]

\* The history holds a snapshot earlier than start_time, two snapshots of one
\* timestamp, and one that was inserted before a snapshot added earlier.
C9_Witness ==
    /\ \E i \in DOMAIN Timestamps : Timestamps[i] < orderbook.start_time
    /\ \E i, j \in DOMAIN Timestamps : i < j /\ Timestamps[i] = Timestamps[j]
    /\ \E i, j \in DOMAIN orderbook.snapshots :
          i < j /\ orderbook.snapshots[i] > orderbook.snapshots[j]
    /\ \E i \in DOMAIN Timestamps : Timestamps[i] > orderbook.start_time

\* C10: get_snapshot(t) is the 0-based index of the snapshot with the greatest
\* timestamp <= t (a snapshot of timestamp t included), and -1 (not found)
\* when no snapshot has a timestamp <= t.
C10_AtOrBefore ==
    query.called =>
        IF \E i \in DOMAIN Timestamps : Timestamps[i] <= query.timestamp
        THEN /\ query.result + 1 \in DOMAIN Timestamps
             /\ Timestamps[query.result + 1] <= query.timestamp
             /\ \A i \in DOMAIN Timestamps :
                   Timestamps[i] <= query.timestamp
                       => Timestamps[i] <= Timestamps[query.result + 1]
        ELSE query.result = -1

\* C11: update returns no snapshot with best_ask <= best_bid or with a negative
\* volume: an order that would produce one on a book with best_ask > best_bid
\* is reported as an error and no snapshot is returned for it.
C11_InvalidOrderRejected ==
    (Updated /\ Pre.nbo > Pre.nbb) =>
        /\ Post.nbo > Post.nbb
        /\ \A i \in DOMAIN Post.bid_vol : Post.bid_vol[i] >= 0
        /\ \A i \in DOMAIN Post.ask_vol : Post.ask_vol[i] >= 0

\* C12: a market order changes only the side it consumes.  Buy with level L:
\* best_ask rises by L + 1 ticks, the first L + 1 ask levels are removed,
\* best_bid and bid_vol are unchanged; Sell: best_bid falls by L + 1 ticks,
\* best_ask and ask_vol are unchanged.
C12_MarketChangesOneSide ==
    (Updated /\ new_order.order_type = MARKET_ORDER) =>
        LET L == new_order.level
        IN /\ SweptVol(Post) = pad(SubSeq(SweptVol(Pre), L + 2, Len(SweptVol(Pre))),
                                   Pre.book_depth)
           /\ IF new_order.side = BUY
              THEN /\ Post.nbo = Pre.nbo + (L + 1) * Pre.tick
                   /\ Post.nbb = Pre.nbb
                   /\ Post.bid_vol = Pre.bid_vol
              ELSE /\ Post.nbb = Pre.nbb - (L + 1) * Pre.tick
                   /\ Post.nbo = Pre.nbo
                   /\ Post.ask_vol = Pre.ask_vol

\* C13: the i-th trade (i = 0..L) a market order with level L records has the
\* price of the level it consumed, best_ask + i * tick of the snapshot the
\* order was applied to for Buy and best_bid - i * tick for Sell, the
\* timestamp of the order and the type Market.
C13_TradeAtConsumedLevel ==
    (Updated /\ new_order.order_type = MARKET_ORDER) =>
        LET before == Len(Pre.trades)
        IN /\ Len(Post.trades) = before + new_order.level + 1
           /\ \A i \in 0..new_order.level :
                 LET trade == Post.trades[before + i + 1]
                 IN /\ trade.price = IF new_order.side = BUY
                                     THEN Pre.nbo + i * Pre.tick
                                     ELSE Pre.nbb - i * Pre.tick
                    /\ trade.timestamp = new_order.timestamp
                    /\ trade.order_type = MARKET_ORDER

\* A Sell market order swept two levels or more and recorded a trade below the
\* best bid, at a time later than the snapshot it was applied to.
C13_Witness ==
    /\ Updated
    /\ new_order.order_type = MARKET_ORDER
    /\ new_order.side = SELL
    /\ new_order.level >= 1
    /\ new_order.timestamp > Pre.timestamp
    /\ Post.trades[Len(Post.trades)].price = Pre.nbb - new_order.level * Pre.tick
    /\ Post.trades[Len(Post.trades)].price < Pre.nbb

\* C14: a limit order with level >= spread_ticks, spread_ticks being
\* (best_ask - best_bid) / tick >= 1 of the snapshot it is applied to, adds its
\* quantity to volumes[level - spread_ticks] of its side and changes no other
\* entry, nor the opposite side, nor a best price; unless level = spread_ticks
\* and the best level is still empty after the add: then that level is dropped
\* and the side's best price moves one tick away from the midpoint.
C14_RestingLimit ==
    (/\ Updated
     /\ new_order.order_type = LIMIT_ORDER
     /\ SpreadTicks(Pre) >= 1
     /\ new_order.level >= SpreadTicks(Pre)
     /\ new_order.level - SpreadTicks(Pre) + 1 \in DOMAIN OwnVol(Pre)) =>
        LET buy == new_order.side = BUY
            index == new_order.level - SpreadTicks(Pre) + 1
            added == [OwnVol(Pre) EXCEPT ![index] = @ + new_order.qty]
            drop == index = 1 /\ added[1] = 0
            away == IF buy THEN -Pre.tick ELSE Pre.tick
        IN /\ SweptVol(Post) = SweptVol(Pre)
           /\ IF buy THEN Post.nbo = Pre.nbo ELSE Post.nbb = Pre.nbb
           /\ IF drop
              THEN /\ OwnVol(Post) = pad(Pop0(added), Pre.book_depth)
                   /\ IF buy THEN Post.nbb = Pre.nbb + away
                             ELSE Post.nbo = Pre.nbo + away
              ELSE /\ OwnVol(Post) = added
                   /\ IF buy THEN Post.nbb = Pre.nbb ELSE Post.nbo = Pre.nbo

\* C15: a cancel changes neither the opposite side's volumes nor its best
\* price and adds no trade.  It changes the best price of its own side only
\* when level = 0 and the best level is left with zero volume: then that level
\* is removed and the price moves one tick away from the midpoint (best_bid
\* down for Buy, best_ask up for Sell).  A cancel at level > 0 that empties its
\* level changes no best price.
C15_CancelFrame ==
    (Updated /\ new_order.order_type = CANCEL_ORDER) =>
        LET buy == new_order.side = BUY
            emptied == /\ new_order.level = 0
                       /\ new_order.qty >= OwnVol(Pre)[1]
        IN /\ SweptVol(Post) = SweptVol(Pre)
           /\ IF buy THEN Post.nbo = Pre.nbo ELSE Post.nbb = Pre.nbb
           /\ Post.trades = Pre.trades
           /\ IF emptied
              THEN /\ IF buy THEN Post.nbb = Pre.nbb - Pre.tick
                             ELSE Post.nbo = Pre.nbo + Pre.tick
                   /\ OwnVol(Post) = pad(Pop0(OwnVol(Pre)), Pre.book_depth)
              ELSE /\ IF buy THEN Post.nbb = Pre.nbb ELSE Post.nbo = Pre.nbo
                   /\ Len(OwnVol(Post)) = Len(OwnVol(Pre))

\* A cancel behind the best level emptied a level that held volume, on a book
\* that holds trades, and both best prices stayed.
C15_Witness ==
    /\ Updated
    /\ new_order.order_type = CANCEL_ORDER
    /\ new_order.level > 0
    /\ OwnVol(Pre)[new_order.level + 1] > 0
    /\ OwnVol(Post)[new_order.level + 1] = 0
    /\ Pre.trades /= <<>>
    /\ Post.nbb = Pre.nbb
    /\ Post.nbo = Pre.nbo

\* C16: snapshots of one timestamp are kept in the order in which they were
\* inserted (a snapshot object created earlier has the smaller reference),
\* whether add_snapshot appended them or placed them by binary search.
C16_EqualTimestampsInInsertionOrder ==
    \A i, j \in DOMAIN orderbook.snapshots :
        (i < j /\ Timestamps[i] = Timestamps[j])
            => orderbook.snapshots[i] < orderbook.snapshots[j]

\* C17: in a simulation run every generated order has a timestamp strictly
\* greater than the timestamp of the snapshot it was generated from, so the
\* timestamps of the history increase strictly and every snapshot was appended
\* (the history lists the snapshots in the order of their creation).
C17_StrictlyIncreasingTimestamps ==
    /\ Updated => new_order.timestamp > Pre.timestamp
    /\ \A i, j \in DOMAIN Timestamps : i < j => Timestamps[i] < Timestamps[j]
    /\ orderbook.snapshots = [i \in DOMAIN orderbook.snapshots |-> i]

\* C18: the simulation loop terminates for every choice of orders and gaps.
\* The loop exits when end_time >= config.end_time, and the generator draws
\* the gap anew in every iteration, so this needs every iteration to move
\* end_time forward: an iteration that leaves end_time where it was can be
\* repeated without end.
C18_EveryIterationAdvances ==
    [][RunLoop => orderbook'.end_time > orderbook.end_time]_vars

\* C19: update raises no IndexError in a run, and on the latest snapshot no
\* order the generator can return from it makes update raise one: the sweep
\* pops no empty list, the limit and cancel index exists.  (Whether update
\* raises depends on the type, the level and the side of the order only.)
C19_UpdateTotal ==
    /\ pc /= "raised"
    /\ LET s == heap[get_latest_snapshot(orderbook)]
       IN \A c \in order_choices(s), side \in Side :
             ~process_raises(s, Order(s.timestamp, c.order_type, side, c.level, 0))

\* A limit order the generator can return was applied at the deepest level it
\* can name, the last entry of a list of exactly book_depth entries, after a
\* market order had emptied and update had padded the other list.
C19_Witness ==
    /\ Updated
    /\ new_order.order_type = LIMIT_ORDER
    /\ new_order.level >= 1
    /\ new_order.level = Pre.book_depth + Pre.spread - 1
    /\ Len(OwnVol(Pre)) = Pre.book_depth
    /\ new_order.qty > 0
    /\ OwnVol(Post)[Pre.book_depth] = OwnVol(Pre)[Pre.book_depth] + new_order.qty
    /\ Pre.trades /= <<>>

\* C20: every trade of every snapshot of a simulation run has quantity > 0.
C20_TradeQuantityPositive ==
    \A r \in DOMAIN heap : \A i \in DOMAIN heap[r].trades : heap[r].trades[i].qty > 0

====
